---------------------------- MODULE Spec2Model ----------------------------
(***************************************************************************)
(* A model of aries.js: the ARIES recovery simulator.  simulate(ops)       *)
(* forward-processes a list of operations, crashes, and runs the analysis, *)
(* redo and undo phases, pushing one snapshot per step onto `states`.      *)
(*                                                                         *)
(* Encoding.  Page values are opaque strings the code only copies; they    *)
(* are encoded as integers >= Bottom so that a log field can hold either a *)
(* value or an LSN (the CLR constructor call passes both kinds).  The i-th *)
(* operation, when it is a write, writes the value Bottom + i: every write *)
(* has its own value, so a value identifies the update that wrote it.      *)
(* JavaScript `undefined` is Undefined in a number/value position and      *)
(* UndefinedStr in a string position.  Log index = LSN + 1.                *)
(*                                                                         *)
(* References.  `states` holds objects and the local `state` of each phase *)
(* is a reference: `aliases` is the set of indices k such that states[k]   *)
(* is the very object `state` refers to, and a write to `state` is a write *)
(* to each of them.                                                        *)
(***************************************************************************)
EXTENDS Integers, Sequences, FiniteSets

VARIABLES ops, states, state, aliases, losers, pc, assert_ok

vars == <<ops, states, state, aliases, losers, pc, assert_ok>>

-----------------------------------------------------------------------------
(* Bounds of the checked inputs *)

\* longest operation list of Spec
MaxOps == 4

\* most operations after LongPrefix in an operation list of SpecLong
MaxOpsLong == 3

\* longest operation list of SpecLive
MaxOpsLive == 3

\* most operations after CkptPrefix in an operation list of SpecCkpt
MaxOpsCkpt == 3

Txns == {"1", "2"}

Pages == {"A", "B"}

-----------------------------------------------------------------------------
(* Types *)

Undefined == -2

UndefinedStr == "undefined"

\* the dummy value "⊥" of a page never written
Bottom == 100

\* the dummy pageLSN of a page never written
DummyPageLsn == -1

OpType == [WRITE |-> "write", COMMIT |-> "commit", FLUSH |-> "flush",
           CHECKPOINT |-> "checkpoint"]

LogType == [UPDATE |-> "update", COMMIT |-> "commit", END |-> "end",
            CLR |-> "clr", CHECKPOINT |-> "checkpoint"]

TxnStatus == [IN_PROGRESS |-> "in progress", COMMITTED |-> "committed",
              ABORTED |-> "aborted"]

Phase == [NORMAL |-> "normal", ANALYSIS |-> "analysis", REDO |-> "redo",
          UNDO |-> "undo", CRASHED |-> "crashed"]

EmptyTable == <<>>

OpWrite(txn_id, page_id, value) ==
  [type |-> OpType.WRITE, txn_id |-> txn_id, page_id |-> page_id, value |-> value]

OpCommit(txn_id) ==
  [type |-> OpType.COMMIT, txn_id |-> txn_id, page_id |-> UndefinedStr,
   value |-> Undefined]

OpFlush(page_id) ==
  [type |-> OpType.FLUSH, txn_id |-> UndefinedStr, page_id |-> page_id,
   value |-> Undefined]

OpCheckpoint ==
  [type |-> OpType.CHECKPOINT, txn_id |-> UndefinedStr, page_id |-> UndefinedStr,
   value |-> Undefined]

\* a log entry; a field the entry's type does not carry reads as undefined
LogEntry(type, lsn) ==
  [type |-> type, lsn |-> lsn, txn_id |-> UndefinedStr, page_id |-> UndefinedStr,
   before |-> Undefined, after |-> Undefined, undo_next_lsn |-> Undefined,
   dirty_page_table |-> EmptyTable, txn_table |-> EmptyTable,
   prev_lsn |-> Undefined]

LogUpdate(lsn, txn_id, page_id, before, after, prev_lsn) ==
  [LogEntry(LogType.UPDATE, lsn) EXCEPT !.txn_id = txn_id, !.page_id = page_id,
     !.before = before, !.after = after, !.prev_lsn = prev_lsn]

LogCommit(lsn, txn_id, prev_lsn) ==
  [LogEntry(LogType.COMMIT, lsn) EXCEPT !.txn_id = txn_id, !.prev_lsn = prev_lsn]

LogEnd(lsn, txn_id, prev_lsn) ==
  [LogEntry(LogType.END, lsn) EXCEPT !.txn_id = txn_id, !.prev_lsn = prev_lsn]

LogCLR(lsn, txn_id, page_id, after, undo_next_lsn, prev_lsn) ==
  [LogEntry(LogType.CLR, lsn) EXCEPT !.txn_id = txn_id, !.page_id = page_id,
     !.after = after, !.undo_next_lsn = undo_next_lsn, !.prev_lsn = prev_lsn]

LogCheckpoint(lsn, dirty_page_table, txn_table) ==
  [LogEntry(LogType.CHECKPOINT, lsn) EXCEPT !.dirty_page_table = dirty_page_table,
     !.txn_table = txn_table]

TxnTableEntry(txn_status, last_lsn) ==
  [txn_status |-> txn_status, last_lsn |-> last_lsn]

DirtyPageTableEntry(rec_lsn) == [rec_lsn |-> rec_lsn]

Page(page_lsn, value) == [page_lsn |-> page_lsn, value |-> value]

\* new aries.State(ops), without `ops` (a variable of its own: no step
\* changes it) and without the narration strings `explanation`
State ==
  [phase |-> Phase.NORMAL, num_ops_processed |-> 0, log |-> <<>>,
   num_flushed |-> 0, log_position |-> Undefined, txn_table |-> EmptyTable,
   dirty_page_table |-> EmptyTable, buffer_pool |-> EmptyTable,
   disk |-> EmptyTable]

-----------------------------------------------------------------------------
(* Helper functions *)

\* obj[key] = value
Put(obj, key, value) ==
  [k \in (DOMAIN obj) \cup {key} |-> IF k = key THEN value ELSE obj[k]]

\* delete obj[key]
Delete(obj, key) == [k \in (DOMAIN obj) \ {key} |-> obj[k]]

\* log[lsn]
At(log, lsn) == log[lsn + 1]

Last(seq) == seq[Len(seq)]

\* JSON.parse(JSON.stringify(x)): a copy sharing nothing with x.  Values of
\* the model are immutable, and a property dropped for being undefined reads
\* back as undefined, so the copy is the same value.
deep_copy(x) == x

\* deep_copy returning its argument instead of a copy
deep_copy_refs_same(refs) == refs

\* the history entries that are the object deep_copy returns, when its
\* argument is the object at the entries refs: none, the copy is a new object
deep_copy_refs(refs) == {}

\* the history h after a write that leaves the working object as new: the
\* entries that are that object read as new
Through(h, refs, new) == [k \in 1..Len(h) |-> IF k \in refs THEN new ELSE h[k]]

\* states.push(state), after the working object was left as new
Push(h, refs, new) == Append(Through(h, refs, new), new)

is_object_empty(x) == DOMAIN x = {}

pages_accessed(oplist) ==
  { oplist[i].page_id : i \in { j \in 1..Len(oplist) :
       oplist[j].type \in {OpType.WRITE, OpType.FLUSH} } }

RECURSIVE latest_checkpoint_from(_, _, _)
latest_checkpoint_from(log, i, lsn) ==
  IF i >= Len(log) THEN lsn
  ELSE latest_checkpoint_from(log, i + 1,
         IF At(log, i).type = OpType.CHECKPOINT THEN i ELSE lsn)

\* latest_checkpoint_lsn stopping at the first checkpoint of the log
latest_checkpoint_lsn_first(s) ==
  LET C == { i \in 0..(Len(s.log) - 1) : At(s.log, i).type = OpType.CHECKPOINT }
  IN  IF C = {} THEN 0 ELSE CHOOSE x \in C : \A y \in C : x <= y

\* latest_checkpoint_lsn that finds no checkpoint
latest_checkpoint_lsn_none(s) == 0

latest_checkpoint_lsn(s) == latest_checkpoint_from(s.log, 0, 0)

Min(S) == CHOOSE x \in S : \A y \in S : x <= y

Max(a, b) == IF a >= b THEN a ELSE b

\* min_rec_lsn returning the largest recLSN of the dirty page table
min_rec_lsn_largest(s) ==
  IF DOMAIN s.dirty_page_table = {} THEN Undefined
  ELSE LET R == { s.dirty_page_table[p].rec_lsn : p \in DOMAIN s.dirty_page_table }
       IN  CHOOSE x \in R : \A y \in R : y <= x

min_rec_lsn(s) ==
  IF DOMAIN s.dirty_page_table = {} THEN Undefined
  ELSE Min({ s.dirty_page_table[p].rec_lsn : p \in DOMAIN s.dirty_page_table })

pin(s, page_id) ==
  IF page_id \notin DOMAIN s.buffer_pool
  THEN [s EXCEPT !.buffer_pool = Put(@, page_id, deep_copy(s.disk[page_id]))]
  ELSE s

\* aries.flush leaving the page in the buffer pool
flush_keep_resident(s, page_id) ==
  IF page_id \in DOMAIN s.buffer_pool
  THEN [s EXCEPT !.disk = Put(@, page_id, deep_copy(s.buffer_pool[page_id]))]
  ELSE s

flush(s, page_id) ==
  IF page_id \in DOMAIN s.buffer_pool
  THEN [s EXCEPT !.disk = Put(@, page_id, deep_copy(s.buffer_pool[page_id])),
                 !.buffer_pool = Delete(@, page_id)]
  ELSE s

\* dirty that sets the recLSN of a page already in the dirty page table
dirty_overwrite(s, page_id, rec_lsn) ==
  [s EXCEPT !.dirty_page_table = Put(@, page_id, DirtyPageTableEntry(rec_lsn))]

dirty(s, page_id, rec_lsn) ==
  IF page_id \notin DOMAIN s.dirty_page_table
  THEN [s EXCEPT !.dirty_page_table = Put(@, page_id, DirtyPageTableEntry(rec_lsn))]
  ELSE s

begin_txn(s, txn_id) ==
  IF txn_id \notin DOMAIN s.txn_table
  THEN [s EXCEPT !.txn_table = Put(@, txn_id, TxnTableEntry(UndefinedStr, Undefined))]
  ELSE s

\* flush_log setting the durable count without the maximum
flush_log_set(s, lsn) == [s EXCEPT !.num_flushed = lsn + 1]

flush_log(s, lsn) == [s EXCEPT !.num_flushed = Max(s.num_flushed, lsn + 1)]

rec_lsn(s, page_id) ==
  IF page_id \in DOMAIN s.dirty_page_table
  THEN s.dirty_page_table[page_id].rec_lsn ELSE Undefined

last_lsn(s, txn_id) ==
  IF txn_id \in DOMAIN s.txn_table
  THEN s.txn_table[txn_id].last_lsn ELSE Undefined

page_lsn(s, page_id) ==
  IF page_id \in DOMAIN s.buffer_pool
  THEN s.buffer_pool[page_id].page_lsn ELSE Undefined

\* aries.init: every page referenced in ops is on the disk
init(s, oplist) ==
  [s EXCEPT !.disk = [p \in pages_accessed(oplist) |-> Page(DummyPageLsn, Bottom)]]


-----------------------------------------------------------------------------
(* Forward processing *)

\* process_write reading `before` after it has overwritten the page
process_write_before_late(s, write) ==
  LET lsn == Len(s.log)
      s1 == pin(s, write.page_id)
      s2 == [s1 EXCEPT !.buffer_pool[write.page_id] = Page(lsn, write.value)]
      before == s2.buffer_pool[write.page_id].value
      s3 == dirty(s2, write.page_id, lsn)
      prev_lsn == last_lsn(s3, write.txn_id)
      s4 == begin_txn(s3, write.txn_id)
      s5 == [s4 EXCEPT !.txn_table[write.txn_id] =
                          TxnTableEntry(TxnStatus.IN_PROGRESS, lsn)]
  IN  [s5 EXCEPT !.log = Append(@, LogUpdate(lsn, write.txn_id, write.page_id,
                                             before, write.value, prev_lsn))]

process_write(s, write) ==
  LET lsn == Len(s.log)
      s1 == pin(s, write.page_id)
      before == s1.buffer_pool[write.page_id].value
      s2 == [s1 EXCEPT !.buffer_pool[write.page_id] = Page(lsn, write.value)]
      s3 == dirty(s2, write.page_id, lsn)
      prev_lsn == last_lsn(s3, write.txn_id)
      s4 == begin_txn(s3, write.txn_id)
      s5 == [s4 EXCEPT !.txn_table[write.txn_id] =
                          TxnTableEntry(TxnStatus.IN_PROGRESS, lsn)]
  IN  [s5 EXCEPT !.log = Append(@, LogUpdate(lsn, write.txn_id, write.page_id,
                                             before, write.value, prev_lsn))]

\* process_commit flushing the log up to the commit entry only
process_commit_force_commit_lsn(s, commit) ==
  LET commit_lsn == Len(s.log)
      prev_lsn == last_lsn(s, commit.txn_id)
      s1 == [s EXCEPT !.log = Append(Append(@,
                       LogCommit(commit_lsn, commit.txn_id, prev_lsn)),
                       LogEnd(commit_lsn + 1, commit.txn_id, commit_lsn))]
  IN  [flush_log(s1, commit_lsn) EXCEPT !.txn_table = Delete(@, commit.txn_id)]

\* process_commit linking the End entry to the last entry of the transaction
\* before the Commit entry
process_commit_end_prev(s, commit) ==
  LET commit_lsn == Len(s.log)
      end_lsn == commit_lsn + 1
      prev_lsn == last_lsn(s, commit.txn_id)
      s1 == [s EXCEPT !.log = Append(Append(@,
                       LogCommit(commit_lsn, commit.txn_id, prev_lsn)),
                       LogEnd(end_lsn, commit.txn_id, prev_lsn))]
      s2 == flush_log(s1, end_lsn)
  IN  [s2 EXCEPT !.txn_table = Delete(@, commit.txn_id)]

process_commit(s, commit) ==
  LET commit_lsn == Len(s.log)
      end_lsn == commit_lsn + 1
      prev_lsn == last_lsn(s, commit.txn_id)
      s1 == [s EXCEPT !.log = Append(Append(@,
                       LogCommit(commit_lsn, commit.txn_id, prev_lsn)),
                       LogEnd(end_lsn, commit.txn_id, commit_lsn))]
      s2 == flush_log(s1, end_lsn)
  IN  [s2 EXCEPT !.txn_table = Delete(@, commit.txn_id)]

\* process_checkpoint numbering the entry by the flushed length of the log
process_checkpoint_lsn_flushed(s, checkpoint) ==
  LET lsn == s.num_flushed
  IN  [s EXCEPT !.log = Append(@, LogCheckpoint(lsn,
                          deep_copy(s.dirty_page_table), deep_copy(s.txn_table)))]

\* process_checkpoint forcing the log up to its own entry
process_checkpoint_forced(s, checkpoint) ==
  LET lsn == Len(s.log)
  IN  flush_log([s EXCEPT !.log = Append(@, LogCheckpoint(lsn,
                   deep_copy(s.dirty_page_table), deep_copy(s.txn_table)))], lsn)

process_checkpoint(s, checkpoint) ==
  LET lsn == Len(s.log)
  IN  [s EXCEPT !.log = Append(@, LogCheckpoint(lsn,
                          deep_copy(s.dirty_page_table), deep_copy(s.txn_table)))]

\* process_flush without the call of flush_log
process_flush_no_force(s, fl) ==
  IF page_lsn(s, fl.page_id) = Undefined THEN s
  ELSE [flush(s, fl.page_id) EXCEPT !.dirty_page_table = Delete(@, fl.page_id)]

\* process_flush leaving the page in the dirty page table
process_flush_keep_dirty(s, fl) ==
  LET pageLsn == page_lsn(s, fl.page_id)
  IN  IF pageLsn = Undefined THEN s
      ELSE LET s1 == flush_log(s, pageLsn)
           IN  flush(s1, fl.page_id)

process_flush(s, fl) ==
  LET pageLsn == page_lsn(s, fl.page_id)
  IN  IF pageLsn = Undefined THEN s
      ELSE LET s1 == flush_log(s, pageLsn)
               s2 == flush(s1, fl.page_id)
           IN  [s2 EXCEPT !.dirty_page_table = Delete(@, fl.page_id)]

\* the console.assert of process_flush (the page not resident is not dirty)
\* and that of aries.flush (the page is on the disk)
process_flush_asserts(s, fl) ==
  /\ page_lsn(s, fl.page_id) = Undefined => fl.page_id \notin DOMAIN s.dirty_page_table
  /\ page_lsn(s, fl.page_id) # Undefined => fl.page_id \in DOMAIN s.disk

\* an iteration of the loop of forward_process that does not count the operation
forward_step_no_count(s, op) ==
  IF op.type = OpType.WRITE THEN process_write(s, op)
  ELSE IF op.type = OpType.COMMIT THEN process_commit(s, op)
  ELSE IF op.type = OpType.CHECKPOINT THEN process_checkpoint(s, op)
  ELSE process_flush(s, op)

\* one iteration of the loop of forward_process
forward_step(s, op) ==
  LET s1 == IF op.type = OpType.WRITE THEN process_write(s, op)
            ELSE IF op.type = OpType.COMMIT THEN process_commit(s, op)
            ELSE IF op.type = OpType.CHECKPOINT THEN process_checkpoint(s, op)
            ELSE process_flush(s, op)
  IN  [s1 EXCEPT !.num_ops_processed = @ + 1]

-----------------------------------------------------------------------------
(* Crash *)

\* crash that keeps the tail of the log that was not flushed
crash_keep_tail(s) ==
  [s EXCEPT !.phase = Phase.CRASHED,
            !.dirty_page_table = EmptyTable,
            !.txn_table = EmptyTable,
            !.buffer_pool = EmptyTable]

crash(s) ==
  [s EXCEPT !.phase = Phase.CRASHED,
            !.log = SubSeq(s.log, 1, s.num_flushed),
            !.dirty_page_table = EmptyTable,
            !.txn_table = EmptyTable,
            !.buffer_pool = EmptyTable]

-----------------------------------------------------------------------------
(* Analysis *)

\* analysis_update that leaves the dirty page table alone
analysis_update_no_dirty(s, update) ==
  LET s2 == begin_txn(s, update.txn_id)
  IN  [s2 EXCEPT !.txn_table[update.txn_id].last_lsn = update.lsn]

analysis_update(s, update) ==
  LET s1 == dirty(s, update.page_id, update.lsn)
      s2 == begin_txn(s1, update.txn_id)
  IN  [s2 EXCEPT !.txn_table[update.txn_id].last_lsn = update.lsn]

analysis_commit(s, commit) ==
  LET s1 == begin_txn(s, commit.txn_id)
  IN  [s1 EXCEPT !.txn_table[commit.txn_id] =
                    TxnTableEntry(TxnStatus.COMMITTED, commit.lsn)]

\* analysis_end that leaves the transaction in the transaction table
analysis_end_keep(s, end) == s

analysis_end(s, end) == [s EXCEPT !.txn_table = Delete(@, end.txn_id)]

\* aries.analysis_clr only asserts false
analysis_clr(s, log_entry) == s

\* analysis_checkpoint loading only the dirty page table
analysis_checkpoint_dpt_only(s, checkpoint) ==
  [s EXCEPT !.dirty_page_table = deep_copy(checkpoint.dirty_page_table)]

analysis_checkpoint(s, checkpoint) ==
  [s EXCEPT !.dirty_page_table = deep_copy(checkpoint.dirty_page_table),
            !.txn_table = deep_copy(checkpoint.txn_table)]

\* the console.assert of analysis_checkpoint and of analysis_clr
analysis_asserts(s, log_entry) ==
  /\ log_entry.type = LogType.CHECKPOINT =>
       /\ is_object_empty(s.dirty_page_table)
       /\ is_object_empty(s.txn_table)
       /\ is_object_empty(s.buffer_pool)
  /\ log_entry.type # LogType.CLR
  /\ log_entry.type = LogType.UPDATE => log_entry.page_id \in DOMAIN s.disk

\* the working copy analysis starts from
analysis_begin(s) ==
  [deep_copy(s) EXCEPT !.phase = Phase.ANALYSIS,
                       !.log_position = latest_checkpoint_lsn(s)]

\* one iteration of the loop of analysis, on the entry at log_position
analysis_step(s) ==
  LET log_entry == At(s.log, s.log_position)
      s1 == IF log_entry.type = LogType.UPDATE THEN analysis_update(s, log_entry)
            ELSE IF log_entry.type = LogType.COMMIT THEN analysis_commit(s, log_entry)
            ELSE IF log_entry.type = LogType.END THEN analysis_end(s, log_entry)
            ELSE IF log_entry.type = LogType.CLR THEN analysis_clr(s, log_entry)
            ELSE analysis_checkpoint(s, log_entry)
  IN  [s1 EXCEPT !.log_position = @ + 1]

\* after the loop: in progress transactions are marked aborted
analysis_finish(s) ==
  [s EXCEPT !.txn_table = [t \in DOMAIN s.txn_table |->
     IF s.txn_table[t].txn_status = TxnStatus.IN_PROGRESS
     THEN [s.txn_table[t] EXCEPT !.txn_status = TxnStatus.ABORTED]
     ELSE s.txn_table[t]]]

-----------------------------------------------------------------------------
(* Redo *)

\* redo_needed with condition 3 strict: an update is redone when the page on
\* disk has the pageLSN of the update
redo_needed_disk_gt(s, update) ==
  /\ update.page_id \in DOMAIN s.dirty_page_table
  /\ ~(s.dirty_page_table[update.page_id].rec_lsn > update.lsn)
  /\ ~(s.disk[update.page_id].page_lsn > update.lsn)

\* redo_needed with condition 2 off by one: the update that dirtied the page
\* (recLSN = LSN) is taken as not to be redone
redo_needed_rec_lsn_ge(s, update) ==
  /\ update.page_id \in DOMAIN s.dirty_page_table
  /\ ~(s.dirty_page_table[update.page_id].rec_lsn >= update.lsn)
  /\ ~(s.disk[update.page_id].page_lsn >= update.lsn)

\* none of the three conditions under which an update is not redone holds
redo_needed(s, update) ==
  /\ update.page_id \in DOMAIN s.dirty_page_table
  /\ ~(s.dirty_page_table[update.page_id].rec_lsn > update.lsn)
  /\ ~(s.disk[update.page_id].page_lsn >= update.lsn)

\* redo_update with a call of aries.flush before the call of aries.pin
redo_update_flush_first(s, update) ==
  IF ~redo_needed(s, update) THEN s
  ELSE LET s1 == pin(flush(s, update.page_id), update.page_id)
       IN  [s1 EXCEPT !.buffer_pool[update.page_id] =
                          Page(update.lsn, update.after)]

\* redo_update that leaves the pageLSN of the buffer copy as it was
redo_update_keep_page_lsn(s, update) ==
  IF ~redo_needed(s, update) THEN s
  ELSE LET s1 == pin(s, update.page_id)
       IN  [s1 EXCEPT !.buffer_pool[update.page_id].value = update.after]

redo_update(s, update) ==
  IF ~redo_needed(s, update) THEN s
  ELSE LET s1 == pin(s, update.page_id)
       IN  [s1 EXCEPT !.buffer_pool[update.page_id] =
                          Page(update.lsn, update.after)]

redo_commit(s, commit) == s

redo_end(s, end) == s

\* aries.redo_clr only asserts false
redo_clr(s, clr) == s

redo_checkpoint(s, checkpoint) == s

\* the console.assert of redo_clr, and that of aries.pin in redo_update
redo_asserts(s, log_entry) ==
  /\ log_entry.type # LogType.CLR
  /\ log_entry.type = LogType.UPDATE =>
       /\ log_entry.page_id \in DOMAIN s.dirty_page_table
            => log_entry.page_id \in DOMAIN s.disk
       /\ redo_needed(s, log_entry) => log_entry.page_id \in DOMAIN s.disk

\* the working copy redo starts from
redo_begin(s) ==
  [deep_copy(s) EXCEPT !.phase = Phase.REDO, !.log_position = min_rec_lsn(s)]

\* one iteration of the loop of redo, on the entry at log_position
redo_step(s) ==
  LET log_entry == At(s.log, s.log_position)
      s1 == IF log_entry.type = LogType.UPDATE THEN redo_update(s, log_entry)
            ELSE IF log_entry.type = LogType.COMMIT THEN redo_commit(s, log_entry)
            ELSE IF log_entry.type = LogType.END THEN redo_end(s, log_entry)
            ELSE IF log_entry.type = LogType.CLR THEN redo_clr(s, log_entry)
            ELSE redo_checkpoint(s, log_entry)
  IN  [s1 EXCEPT !.log_position = @ + 1]

RECURSIVE redo_loop(_)
redo_loop(s) == IF s.log_position < Len(s.log) THEN redo_loop(redo_step(s)) ELSE s

\* aries.redo applied to the snapshot s: the last snapshot it pushes, or s
\* itself when it pushes none (empty dirty page table)
redo(s) == IF min_rec_lsn(s) = Undefined THEN s ELSE redo_loop(redo_begin(s))

-----------------------------------------------------------------------------
(* Undo *)

\* String(n): the decimal digits of n >= 0, which is what Array.prototype.sort
\* compares when it is given no comparator
RECURSIVE String(_)
String(n) == IF n < 10 THEN <<n>> ELSE Append(String(n \div 10), n % 10)

\* a < b for strings of digits, by code unit: a is a proper prefix of b, or
\* a has the smaller digit at the first position where they differ
StringLess(a, b) ==
  \E k \in 1..Len(b) :
    /\ Len(a) >= k - 1
    /\ \A j \in 1..(k - 1) : a[j] = b[j]
    /\ (Len(a) = k - 1 \/ a[k] < b[k])

\* the order losers.sort() sorts by
SortLess(x, y) == StringLess(String(x), String(y))

\* x put into the sorted array after every element that is not greater
SortInsert(x, arr) ==
  LET k == Cardinality({ i \in 1..Len(arr) : ~SortLess(x, arr[i]) })
  IN  SubSeq(arr, 1, k) \o <<x>> \o SubSeq(arr, k + 1, Len(arr))

\* losers.sort()
RECURSIVE sort(_)
sort(arr) ==
  IF arr = <<>> THEN <<>>
  ELSE SortInsert(arr[Len(arr)], sort(SubSeq(arr, 1, Len(arr) - 1)))

\* the working copy undo starts from
undo_begin(s) == [deep_copy(s) EXCEPT !.phase = Phase.UNDO]

\* undo collecting the loser LSN of one transaction only
undo_losers_one(s) ==
  IF DOMAIN s.txn_table = {} THEN { <<>> }
  ELSE { << s.txn_table[t].last_lsn >> : t \in DOMAIN s.txn_table }

\* undo collecting no loser LSN from the transaction table
undo_losers_none(s) == { <<>> }

\* the arrays `for (var page_id in state.txn_table) losers.push(...)` can
\* build: the lastLSNs in the order the keys are enumerated
undo_losers(s) ==
  LET T == DOMAIN s.txn_table
      n == Cardinality(T)
  IN  { [i \in 1..n |-> s.txn_table[q[i]].last_lsn] :
          q \in { f \in [1..n -> T] : \A i, j \in 1..n : i # j => f[i] # f[j] } }

\* the LSN `losers.sort(); losers.pop()` takes
undo_pop(ls) == sort(ls)[Len(ls)]

\* an iteration of undo that enters the page it writes into the dirty page
\* table
undo_step_dirty(s, ls) ==
  LET sorted == sort(ls)
      loser == sorted[Len(sorted)]
      rest == SubSeq(sorted, 1, Len(sorted) - 1)
      loser_entry == At(s.log, loser)
      clr_lsn == Len(s.log)
      undo_next_lsn == loser_entry.prev_lsn
      after == loser_entry.before
      prev_lsn == last_lsn(s, loser_entry.txn_id)
      s1 == [s EXCEPT !.log = Append(@, LogCLR(clr_lsn, loser_entry.txn_id,
                                 loser_entry.page_id, undo_next_lsn, after, prev_lsn))]
      s2 == dirty(pin(s1, loser_entry.page_id), loser_entry.page_id, clr_lsn)
      s3 == [s2 EXCEPT !.buffer_pool[loser_entry.page_id] = Page(clr_lsn, after)]
      s4 == [s3 EXCEPT !.txn_table[loser_entry.txn_id].last_lsn = clr_lsn]
      s5 == IF undo_next_lsn # Undefined THEN s4
            ELSE [s4 EXCEPT !.log = Append(@, LogEnd(Len(s4.log),
                                                 loser_entry.txn_id, clr_lsn)),
                            !.txn_table = Delete(@, loser_entry.txn_id)]
  IN  [state |-> [s5 EXCEPT !.log_position = loser_entry.lsn],
       losers |-> IF undo_next_lsn # Undefined THEN Append(rest, undo_next_lsn)
                  ELSE rest]

\* undo_step giving the page the LSN of the undone update as its pageLSN
undo_step_page_lsn_loser(s, ls) ==
  LET sorted == sort(ls)
      loser == sorted[Len(sorted)]
      rest == SubSeq(sorted, 1, Len(sorted) - 1)
      loser_entry == At(s.log, loser)
      clr_lsn == Len(s.log)
      undo_next_lsn == loser_entry.prev_lsn
      after == loser_entry.before
      prev_lsn == last_lsn(s, loser_entry.txn_id)
      s1 == [s EXCEPT !.log = Append(@, LogCLR(clr_lsn, loser_entry.txn_id,
                                 loser_entry.page_id, undo_next_lsn, after, prev_lsn))]
      s2 == pin(s1, loser_entry.page_id)
      s3 == [s2 EXCEPT !.buffer_pool[loser_entry.page_id] = Page(loser, after)]
      s4 == [s3 EXCEPT !.txn_table[loser_entry.txn_id].last_lsn = clr_lsn]
      s5 == IF undo_next_lsn # Undefined THEN s4
            ELSE [s4 EXCEPT !.log = Append(@, LogEnd(Len(s4.log),
                                                 loser_entry.txn_id, clr_lsn)),
                            !.txn_table = Delete(@, loser_entry.txn_id)]
  IN  [state |-> [s5 EXCEPT !.log_position = loser_entry.lsn],
       losers |-> IF undo_next_lsn # Undefined THEN Append(rest, undo_next_lsn)
                  ELSE rest]

\* one iteration of the loop of undo: the new working copy and loser LSNs
undo_step(s, ls) ==
  LET sorted == sort(ls)
      loser == sorted[Len(sorted)]
      rest == SubSeq(sorted, 1, Len(sorted) - 1)
      loser_entry == At(s.log, loser)
      clr_lsn == Len(s.log)
      undo_next_lsn == loser_entry.prev_lsn
      after == loser_entry.before
      prev_lsn == last_lsn(s, loser_entry.txn_id)
      s1 == [s EXCEPT !.log = Append(@, LogCLR(clr_lsn, loser_entry.txn_id,
                                 loser_entry.page_id, undo_next_lsn, after, prev_lsn))]
      s2 == pin(s1, loser_entry.page_id)
      s3 == [s2 EXCEPT !.buffer_pool[loser_entry.page_id] = Page(clr_lsn, after)]
      s4 == [s3 EXCEPT !.txn_table[loser_entry.txn_id].last_lsn = clr_lsn]
      s5 == IF undo_next_lsn # Undefined THEN s4
            ELSE [s4 EXCEPT !.log = Append(@, LogEnd(Len(s4.log),
                                                 loser_entry.txn_id, clr_lsn)),
                            !.txn_table = Delete(@, loser_entry.txn_id)]
  IN  [state |-> [s5 EXCEPT !.log_position = loser_entry.lsn],
       losers |-> IF undo_next_lsn # Undefined THEN Append(rest, undo_next_lsn)
                  ELSE rest]

\* the console.assert of undo (the loser entry is an entry of the log, and an
\* update) and that of aries.pin
undo_asserts(s, ls) ==
  LET loser == undo_pop(ls)
  IN  /\ loser >= 0 /\ loser < Len(s.log)
      /\ At(s.log, loser).type = LogType.UPDATE
      /\ At(s.log, loser).page_id \in DOMAIN s.disk

-----------------------------------------------------------------------------
(* The operation lists simulate is run on *)

Alphabet ==
  { OpWrite(t, p, Undefined) : t \in Txns, p \in Pages }
    \cup { OpCommit(t) : t \in Txns }
    \cup { OpFlush(p) : p \in Pages }
    \cup { OpCheckpoint }

\* the operations every list of SpecLong starts with: four commits of a
\* transaction that wrote nothing put LSNs 0..7 in the durable log, then
\* transaction 1 writes page A at LSN 8
LongPrefix ==
  << OpCommit("3"), OpCommit("3"), OpCommit("3"), OpCommit("3"),
     OpWrite("1", "A", Undefined) >>

\* the operations every list of SpecCkpt starts with: two transactions write
\* a page each and the second page is flushed, so that a checkpoint among
\* the next operations finds one page dirty and one page clean
CkptPrefix ==
  << OpWrite("1", "A", Undefined), OpWrite("2", "B", Undefined), OpFlush("B") >>

\* the i-th operation, if a write, writes the value Bottom + i
WithValues(q) ==
  [i \in 1..Len(q) |->
     IF q[i].type = OpType.WRITE THEN [q[i] EXCEPT !.value = Bottom + i] ELSE q[i]]

OpLists(prefix, n) ==
  { WithValues(prefix \o q) : q \in UNION { [1..k -> Alphabet] : k \in 0..n } }

-----------------------------------------------------------------------------
(* simulate *)

\* var states = [initial_state]; aries.init(initial_state, ops); and the
\* first line of forward_process
InitOn(oplists) ==
  /\ ops \in oplists
  /\ states = << init(State, ops) >>
  /\ state = deep_copy(init(State, ops))
  /\ aliases = deep_copy_refs({1})
  /\ losers = <<>>
  /\ pc = "forward"
  /\ assert_ok = TRUE

\* The code copies and compares page ids and transaction ids and nothing
\* else, so a list and its renamings behave alike: of each class Spec runs
\* the list whose first page is "A" and whose first transaction is "1".
Canonical(oplist) ==
  LET P == { i \in 1..Len(oplist) : oplist[i].page_id # UndefinedStr }
      T == { i \in 1..Len(oplist) : oplist[i].txn_id # UndefinedStr }
  IN  /\ P # {} => oplist[Min(P)].page_id = "A"
      /\ T # {} => oplist[Min(T)].txn_id = "1"

Init == InitOn({ l \in OpLists(<<>>, MaxOps) : Canonical(l) })

InitLong == InitOn(OpLists(LongPrefix, MaxOpsLong))

InitCkpt == InitOn(OpLists(CkptPrefix, MaxOpsCkpt))

InitLive == InitOn({ l \in OpLists(<<>>, MaxOpsLive) : Canonical(l) })

\* one iteration of forward_process on an operation of the given type
Forward(type) ==
  /\ pc = "forward"
  /\ state.num_ops_processed < Len(ops)
  /\ LET op == ops[state.num_ops_processed + 1]
     IN  /\ op.type = type
         /\ state' = deep_copy(forward_step(state, op))
         /\ states' = Push(states, aliases, forward_step(state, op))
         /\ aliases' = deep_copy_refs(aliases \cup {Len(states) + 1})
         /\ assert_ok' = (assert_ok /\
              (type = OpType.WRITE => op.page_id \in DOMAIN state.disk) /\
              (type = OpType.FLUSH => process_flush_asserts(state, op)))
  /\ UNCHANGED <<ops, losers, pc>>

ProcessWrite == Forward(OpType.WRITE)

ProcessCommit == Forward(OpType.COMMIT)

ProcessCheckpoint == Forward(OpType.CHECKPOINT)

ProcessFlush == Forward(OpType.FLUSH)

Crash ==
  /\ pc = "forward"
  /\ state.num_ops_processed = Len(ops)
  /\ state' = crash(deep_copy(Last(states)))
  /\ states' = Push(states, deep_copy_refs({Len(states)}), state')
  /\ aliases' = deep_copy_refs({Len(states)}) \cup {Len(states) + 1}
  /\ pc' = "analysis_begin"
  /\ UNCHANGED <<ops, losers, assert_ok>>

AnalysisBegin ==
  /\ pc = "analysis_begin"
  /\ state' = analysis_begin(Last(states))
  /\ aliases' = deep_copy_refs({Len(states)})
  /\ states' = Through(states, aliases', state')
  /\ pc' = "analysis"
  /\ UNCHANGED <<ops, losers, assert_ok>>

AnalysisStep ==
  /\ pc = "analysis"
  /\ state.log_position < Len(state.log)
  /\ state' = deep_copy(analysis_step(state))
  /\ states' = Push(states, aliases, analysis_step(state))
  /\ aliases' = deep_copy_refs(aliases \cup {Len(states) + 1})
  /\ assert_ok' = (assert_ok /\ analysis_asserts(state, At(state.log, state.log_position)))
  /\ UNCHANGED <<ops, losers, pc>>

AnalysisFinish ==
  /\ pc = "analysis"
  /\ state.log_position >= Len(state.log)
  /\ state' = analysis_finish(state)
  /\ states' = Push(states, aliases, state')
  /\ aliases' = aliases \cup {Len(states) + 1}
  /\ pc' = "redo_begin"
  /\ UNCHANGED <<ops, losers, assert_ok>>

RedoBegin ==
  /\ pc = "redo_begin"
  /\ state' = redo_begin(Last(states))
  /\ aliases' = deep_copy_refs({Len(states)})
  /\ states' = Through(states, aliases', state')
  /\ pc' = IF min_rec_lsn(Last(states)) = Undefined
              \/ min_rec_lsn(Last(states)) >= Len(Last(states).log)
           THEN "undo_begin" ELSE "redo"
  /\ UNCHANGED <<ops, losers, assert_ok>>

RedoStep ==
  /\ pc = "redo"
  /\ state.log_position < Len(state.log)
  /\ state' = deep_copy(redo_step(state))
  /\ states' = Push(states, aliases, redo_step(state))
  /\ aliases' = deep_copy_refs(aliases \cup {Len(states) + 1})
  /\ assert_ok' = (assert_ok /\ redo_asserts(state, At(state.log, state.log_position)))
  /\ pc' = IF state'.log_position < Len(state'.log) THEN "redo" ELSE "undo_begin"
  /\ UNCHANGED <<ops, losers>>

UndoBegin ==
  /\ pc = "undo_begin"
  /\ state' = undo_begin(Last(states))
  /\ aliases' = deep_copy_refs({Len(states)})
  /\ states' = Through(states, aliases', state')
  /\ losers' \in undo_losers(Last(states))
  /\ pc' = "undo"
  /\ UNCHANGED <<ops, assert_ok>>

UndoStep ==
  /\ pc = "undo"
  /\ Len(losers) > 0
  /\ state' = deep_copy(undo_step(state, losers).state)
  /\ losers' = undo_step(state, losers).losers
  /\ states' = Push(states, aliases, undo_step(state, losers).state)
  /\ aliases' = deep_copy_refs(aliases \cup {Len(states) + 1})
  /\ assert_ok' = (assert_ok /\ undo_asserts(state, losers))
  /\ UNCHANGED <<ops, pc>>

UndoFinish ==
  /\ pc = "undo"
  /\ Len(losers) = 0
  /\ states' = Push(states, aliases, state)
  /\ aliases' = aliases \cup {Len(states) + 1}
  /\ pc' = "done"
  /\ UNCHANGED <<ops, state, losers, assert_ok>>

Next ==
  \/ ProcessWrite
  \/ ProcessCommit
  \/ ProcessCheckpoint
  \/ ProcessFlush
  \/ Crash
  \/ AnalysisBegin
  \/ AnalysisStep
  \/ AnalysisFinish
  \/ RedoBegin
  \/ RedoStep
  \/ UndoBegin
  \/ UndoStep
  \/ UndoFinish

Spec == Init /\ [][Next]_vars

SpecLong == InitLong /\ [][Next]_vars

\* simulate is one sequential run: a step that can be taken is taken
SpecCkpt == InitCkpt /\ [][Next]_vars

\* simulate up to the crash: forward_process and aries.crash
NextForward ==
  \/ ProcessWrite
  \/ ProcessCommit
  \/ ProcessCheckpoint
  \/ ProcessFlush
  \/ Crash

SpecForward == Init /\ [][NextForward]_vars

SpecLive == InitLive /\ [][Next]_vars /\ WF_vars(Next)

-----------------------------------------------------------------------------
(* The history: states[k + 1] is the snapshot after k operations, for
   k = 0..Len(ops); the crashed snapshot follows. *)

\* the snapshots k for which states[k + 1] is the result of ops[k]
Processed == { k \in 1..Len(ops) : k + 1 <= Len(states) }

\* the crash has been taken
Crashed == Len(states) >= Len(ops) + 2

PreCrash == states[Len(ops) + 1]

CrashState == states[Len(ops) + 2]

-----------------------------------------------------------------------------
(* C1: WAL rule.  Whenever forward processing has processed a Flush(P) with
   P resident in the buffer pool with pageLSN L, the snapshot that Flush
   produced has num_flushed >= L + 1, and the entry at LSN L is in its log. *)
C1_WalRule ==
  \A k \in Processed :
    (ops[k].type = OpType.FLUSH /\ ops[k].page_id \in DOMAIN states[k].buffer_pool)
    => LET L == states[k].buffer_pool[ops[k].page_id].page_lsn
       IN  /\ states[k + 1].num_flushed >= L + 1
           /\ L + 1 <= Len(states[k + 1].log)

\* a Flush of a resident page whose pageLSN was not yet durable has been
\* processed: the flush had to force the log, and the page left the buffer pool
C1_Witness ==
  \E k \in Processed :
    /\ ops[k].type = OpType.FLUSH
    /\ ops[k].page_id \in DOMAIN states[k].buffer_pool
    /\ states[k].num_flushed <= states[k].buffer_pool[ops[k].page_id].page_lsn
    /\ states[k + 1].num_flushed > states[k].num_flushed
    /\ ops[k].page_id \notin DOMAIN states[k + 1].buffer_pool

(* C2: force-at-commit.  Whenever forward processing has processed a
   Commit(T) that appended T's Commit entry at LSN c, the snapshot it produced
   has T's End entry at LSN c + 1 and num_flushed >= c + 2, and every later
   snapshot, the crashed one included, still holds both entries. *)
C2_ForceAtCommit ==
  \A k \in Processed :
    ops[k].type = OpType.COMMIT
    => LET c == Len(states[k].log)
           after == states[k + 1]
       IN  /\ Len(after.log) = c + 2
           /\ At(after.log, c).type = LogType.COMMIT
           /\ At(after.log, c).txn_id = ops[k].txn_id
           /\ At(after.log, c + 1).type = LogType.END
           /\ At(after.log, c + 1).txn_id = ops[k].txn_id
           /\ after.num_flushed >= (c + 1) + 1
           /\ \A j \in (k + 2)..Len(states) :
                /\ states[j].num_flushed >= (c + 1) + 1
                /\ Len(states[j].log) >= c + 2
                /\ At(states[j].log, c) = At(after.log, c)
                /\ At(states[j].log, c + 1) = At(after.log, c + 1)

\* a transaction with an update has committed, more operations followed that
\* were not forced, and the crash kept the Commit and End entries
C2_Witness ==
  /\ Crashed
  /\ \E k \in Processed :
       /\ ops[k].type = OpType.COMMIT
       /\ ops[k].txn_id \in DOMAIN states[k].txn_table
       /\ Len(PreCrash.log) > Len(states[k + 1].log)
       /\ Len(CrashState.log) = Len(states[k + 1].log)

-----------------------------------------------------------------------------
(* Recovery, read off the history *)

\* the final snapshot of analysis, once analysis has finished
AnalysisDone == pc \in {"redo_begin", "redo", "undo_begin", "undo", "done"}

AnalysisFinal ==
  states[CHOOSE k \in 1..Len(states) :
           /\ states[k].phase = Phase.ANALYSIS
           /\ \A j \in (k + 1)..Len(states) : states[j].phase # Phase.ANALYSIS]

\* the copy of a page a reader sees
Effective(s, p) == IF p \in DOMAIN s.buffer_pool THEN s.buffer_pool[p] ELSE s.disk[p]

UpdateLsns(log) == { l \in 0..(Len(log) - 1) : At(log, l).type = LogType.UPDATE }

\* the update at LSN l is committed in log: a Commit entry of its transaction
\* follows it (a transaction id is free again once its Commit is written)
CommittedIn(log, l) ==
  \E c \in (l + 1)..(Len(log) - 1) :
    /\ At(log, c).type = LogType.COMMIT
    /\ At(log, c).txn_id = At(log, l).txn_id

\* the value of page p after the committed updates of log, in LSN order
CommittedValue(log, p) ==
  LET S == { l \in UpdateLsns(log) : At(log, l).page_id = p /\ CommittedIn(log, l) }
  IN  IF S = {} THEN Bottom
      ELSE At(log, CHOOSE l \in S : \A m \in S : m <= l).after

\* the operation list is strict: no write to a page that another transaction
\* has written and not yet committed
Strict ==
  \A k \in 1..Len(ops) : \A j \in 1..(k - 1) :
    ( /\ ops[k].type = OpType.WRITE /\ ops[j].type = OpType.WRITE
      /\ ops[j].page_id = ops[k].page_id /\ ops[j].txn_id # ops[k].txn_id )
    => \E m \in (j + 1)..(k - 1) :
         ops[m].type = OpType.COMMIT /\ ops[m].txn_id = ops[j].txn_id

RECURSIVE PrevChain(_, _)
\* the LSNs on the prev_lsn chain that starts at lsn
PrevChain(log, lsn) ==
  IF lsn = Undefined THEN {} ELSE {lsn} \cup PrevChain(log, At(log, lsn).prev_lsn)

\* the updates of the transactions in the transaction table s.txn_table
LoserUpdates(s) ==
  UNION { PrevChain(s.log, s.txn_table[t].last_lsn) : t \in DOMAIN s.txn_table }

SeqMax(seq) == CHOOSE x \in { seq[i] : i \in 1..Len(seq) } :
                 \A i \in 1..Len(seq) : seq[i] <= x

\* the snapshots an iteration of the undo loop pushed: they appended a CLR
UndoSteps ==
  { k \in 2..Len(states) :
      /\ states[k].phase = Phase.UNDO
      /\ Len(states[k].log) > Len(states[k - 1].log) }

-----------------------------------------------------------------------------
(* C3 as claimed: in the last snapshot of simulate every page's effective
   value is the value left by the committed updates of the durable log, for
   every operation list. *)
C3_AtomicDurable_AsClaimed ==
  pc = "done" =>
    \A p \in DOMAIN Last(states).disk :
      Effective(Last(states), p).value = CommittedValue(CrashState.log, p)

(* C3 amended: the same, for every strict operation list (no transaction
   writes a page holding an uncommitted update of another transaction). *)
C3_AtomicDurable ==
  (pc = "done" /\ Strict) =>
    \A p \in DOMAIN Last(states).disk :
      Effective(Last(states), p).value = CommittedValue(CrashState.log, p)

\* simulate has finished on a strict list: a page holds a committed value
\* that redo had to bring back, and a loser update was compensated
C3_Witness ==
  /\ pc = "done"
  /\ Strict
  /\ \E p \in DOMAIN Last(states).buffer_pool :
       /\ CommittedValue(CrashState.log, p) # Bottom
       /\ CrashState.disk[p].value # CommittedValue(CrashState.log, p)
       /\ Last(states).buffer_pool[p].value = CommittedValue(CrashState.log, p)
  /\ \E l \in 0..(Len(Last(states).log) - 1) : At(Last(states).log, l).type = LogType.CLR

(* C4: undo completeness.  In the final snapshot of undo the transaction
   table is empty and no page of the buffer pool holds a value written by an
   update of a transaction that was in the transaction table at the end of
   analysis. *)
C4_UndoCompleteness ==
  pc = "done" =>
    /\ DOMAIN Last(states).txn_table = {}
    /\ \A p \in DOMAIN Last(states).buffer_pool :
         Last(states).buffer_pool[p].value \notin
           { At(AnalysisFinal.log, l).after : l \in LoserUpdates(AnalysisFinal) }

(* C5: undo ordering.  Every iteration of the undo loop undoes the
   numerically largest LSN of the loser set (the snapshot it pushes has
   log_position = that LSN). *)
C5_UndoOrder ==
  [][(pc = "undo" /\ Len(losers) > 0) => state'.log_position = SeqMax(losers)]_vars

(* C6: every CLR appended by undo for the undone update U has txn = U.txn,
   page = U.page, after = U.before, undo_next_lsn = U.prev_lsn and prev_lsn =
   the transaction's last_lsn just before the append, as stored in the log
   of the history snapshots. *)
C6_ClrFields ==
  \A k \in UndoSteps :
    LET U == At(states[k].log, states[k].log_position)
        clr == At(states[k].log, Len(states[k - 1].log))
    IN  /\ clr.type = LogType.CLR
        /\ clr.txn_id = U.txn_id
        /\ clr.page_id = U.page_id
        /\ clr.after = U.before
        /\ clr.undo_next_lsn = U.prev_lsn
        /\ clr.prev_lsn = states[k - 1].txn_table[U.txn_id].last_lsn

(* C7: loser classification.  A transaction the analysis scan inserts for an
   Update entry gets status in_progress; in the final snapshot of analysis
   every transaction in the table that has not committed has status aborted;
   and the loser LSNs undo starts from are those of the aborted ones. *)
C7_LoserClassification ==
  /\ \A k \in 2..Len(states) :
       ( /\ states[k].phase = Phase.ANALYSIS
         /\ states[k].log_position = states[k - 1].log_position + 1
            \/ states[k - 1].phase = Phase.CRASHED
         /\ states[k].log_position >= 1
         /\ At(states[k].log, states[k].log_position - 1).type = LogType.UPDATE )
       => LET t == At(states[k].log, states[k].log_position - 1).txn_id
          IN  t \notin DOMAIN states[k - 1].txn_table
              => states[k].txn_table[t].txn_status = TxnStatus.IN_PROGRESS
  /\ AnalysisDone =>
       \A t \in DOMAIN AnalysisFinal.txn_table :
         AnalysisFinal.txn_table[t].txn_status # TxnStatus.COMMITTED
         => AnalysisFinal.txn_table[t].txn_status = TxnStatus.ABORTED
  /\ (pc = "undo" /\ state.phase = Phase.UNDO /\ Len(state.log) = Len(AnalysisFinal.log))
       => { losers[i] : i \in 1..Len(losers) } =
            { AnalysisFinal.txn_table[t].last_lsn :
                t \in { u \in DOMAIN AnalysisFinal.txn_table :
                          AnalysisFinal.txn_table[u].txn_status = TxnStatus.ABORTED } }

(* C8: redo idempotence on state.  Applying the redo pass to the result of
   the redo pass leaves log, transaction table, dirty page table, buffer
   pool, disk and num_flushed as the first pass left them. *)
C8_RedoIdempotent ==
  pc = "undo_begin" =>
    LET r1 == Last(states)
        r2 == redo(r1)
    IN  /\ r2.log = r1.log
        /\ r2.txn_table = r1.txn_table
        /\ r2.dirty_page_table = r1.dirty_page_table
        /\ r2.buffer_pool = r1.buffer_pool
        /\ r2.disk = r1.disk
        /\ r2.num_flushed = r1.num_flushed

\* a redo pass that redid an update over a page it had already redone
C8_Witness ==
  /\ pc = "undo_begin"
  /\ \E l \in UpdateLsns(Last(states).log) : \E m \in UpdateLsns(Last(states).log) :
       /\ l < m
       /\ At(Last(states).log, l).page_id = At(Last(states).log, m).page_id
       /\ redo_needed(AnalysisFinal, At(Last(states).log, l))
       /\ redo_needed(AnalysisFinal, At(Last(states).log, m))
       /\ Last(states).phase = Phase.REDO

\* the updates a redo pass over s scans
RedoScanned(s) ==
  IF min_rec_lsn(s) = Undefined THEN {}
  ELSE { l \in UpdateLsns(s.log) : l >= min_rec_lsn(s) }

(* C9 as claimed: after a complete redo pass every Update entry of the
   scanned range satisfies one of the three skip conditions. *)
C9_AllSkip_AsClaimed ==
  pc = "undo_begin" =>
    \A l \in RedoScanned(Last(states)) :
      ~redo_needed(Last(states), At(Last(states).log, l))

(* C9 amended: after a complete redo pass every Update entry of the scanned
   range satisfies one of the three skip conditions or is already in the
   buffer pool (its page is resident with pageLSN >= its LSN); the pass
   changes neither the dirty page table nor the disk, so the conditions hold
   of exactly the entries they held of before the pass. *)
C9_SkipOrApplied ==
  pc = "undo_begin" =>
    /\ RedoScanned(Last(states)) = RedoScanned(AnalysisFinal)
    /\ \A l \in RedoScanned(Last(states)) :
         LET u == At(Last(states).log, l)
         IN  /\ redo_needed(Last(states), u) <=> redo_needed(AnalysisFinal, u)
             /\ redo_needed(Last(states), u) =>
                  /\ u.page_id \in DOMAIN Last(states).buffer_pool
                  /\ Last(states).buffer_pool[u.page_id].page_lsn >= l

\* a redo pass has redone an update, and skipped another
C9_Witness ==
  /\ pc = "undo_begin"
  /\ Last(states).phase = Phase.REDO
  /\ \E l \in RedoScanned(Last(states)) :
       redo_needed(Last(states), At(Last(states).log, l))
  /\ \E l \in RedoScanned(Last(states)) :
       ~redo_needed(Last(states), At(Last(states).log, l))

(* C10 as claimed: the dirty page table and transaction table of the final
   analysis snapshot (keys, rec_lsn, last_lsn) are those of the last
   forward-processing snapshot. *)
C10_TablesRebuilt_AsClaimed ==
  pc = "redo_begin" =>
    /\ DOMAIN AnalysisFinal.txn_table = DOMAIN PreCrash.txn_table
    /\ \A t \in DOMAIN AnalysisFinal.txn_table :
         AnalysisFinal.txn_table[t].last_lsn = PreCrash.txn_table[t].last_lsn
    /\ DOMAIN AnalysisFinal.dirty_page_table = DOMAIN PreCrash.dirty_page_table
    /\ \A p \in DOMAIN AnalysisFinal.dirty_page_table :
         AnalysisFinal.dirty_page_table[p].rec_lsn = PreCrash.dirty_page_table[p].rec_lsn

\* the forward-processing snapshots whose log is the log that survives the crash
SurvivingSnapshots ==
  { k \in 1..(Len(ops) + 1) : Len(states[k].log) = CrashState.num_flushed }

(* C10 amended: the transaction table of the final analysis snapshot (keys
   and last_lsn) is that of the forward-processing snapshots whose log is
   exactly the durable log, and its dirty page table holds every page dirty
   in such a snapshot, with a rec_lsn no larger. *)
C10_TablesRebuilt ==
  pc = "redo_begin" =>
    /\ SurvivingSnapshots # {}
    /\ \A k \in SurvivingSnapshots :
         /\ DOMAIN AnalysisFinal.txn_table = DOMAIN states[k].txn_table
         /\ \A t \in DOMAIN AnalysisFinal.txn_table :
              AnalysisFinal.txn_table[t].last_lsn = states[k].txn_table[t].last_lsn
         /\ DOMAIN states[k].dirty_page_table \subseteq DOMAIN AnalysisFinal.dirty_page_table
         /\ \A p \in DOMAIN states[k].dirty_page_table :
              AnalysisFinal.dirty_page_table[p].rec_lsn <= states[k].dirty_page_table[p].rec_lsn

\* analysis has finished after a crash that lost an unforced tail of the log:
\* a loser is in the rebuilt transaction table, and a page that was flushed
\* before the crash is in the rebuilt dirty page table
C10_Witness ==
  /\ pc = "redo_begin"
  /\ Len(CrashState.log) < Len(PreCrash.log)
  /\ DOMAIN AnalysisFinal.txn_table # {}
  /\ \E p \in DOMAIN AnalysisFinal.dirty_page_table : p \notin DOMAIN PreCrash.dirty_page_table

-----------------------------------------------------------------------------
(* C11: crash.  The Crashed snapshot has phase Crashed; its log is exactly
   the first num_flushed entries of the pre-crash log; its transaction table,
   dirty page table and buffer pool are empty; its disk and num_flushed are
   those of the pre-crash snapshot. *)
C11_CrashFrame ==
  Crashed =>
    /\ CrashState.phase = Phase.CRASHED
    /\ PreCrash.num_flushed <= Len(PreCrash.log)
    /\ Len(CrashState.log) = PreCrash.num_flushed
    /\ \A i \in 1..PreCrash.num_flushed : CrashState.log[i] = PreCrash.log[i]
    /\ \A i \in 1..Len(CrashState.log) : CrashState.log[i].lsn < PreCrash.num_flushed
    /\ CrashState.txn_table = EmptyTable
    /\ CrashState.dirty_page_table = EmptyTable
    /\ CrashState.buffer_pool = EmptyTable
    /\ CrashState.disk = PreCrash.disk
    /\ CrashState.num_flushed = PreCrash.num_flushed

\* the crash took a tail of the log that was not flushed, a transaction in
\* progress and a dirty page of the buffer pool, and kept a flushed head
C11_Witness ==
  /\ Crashed
  /\ PreCrash.num_flushed > 0
  /\ Len(PreCrash.log) > PreCrash.num_flushed
  /\ DOMAIN PreCrash.txn_table # {}
  /\ DOMAIN PreCrash.dirty_page_table # {}
  /\ DOMAIN PreCrash.buffer_pool # {}

\* the forward-processing snapshots in the history: states[k] for k in Normal
Normal == 1..(IF Len(states) <= Len(ops) + 1 THEN Len(states) ELSE Len(ops) + 1)

\* no Flush(p) among the operations that lead from snapshot j to snapshot k
NoFlushBetween(p, j, k) ==
  \A i \in j..(k - 1) : ~(ops[i].type = OpType.FLUSH /\ ops[i].page_id = p)

\* the operations up to snapshot k that wrote page p after its last flush
WritesSinceFlush(p, k) ==
  { i \in 1..(k - 1) :
      /\ ops[i].type = OpType.WRITE /\ ops[i].page_id = p
      /\ NoFlushBetween(p, i, k) }

(* C12: dirty-page monotonicity.  Between two forward-processing snapshots
   that both have page P in the dirty page table, with no Flush(P) processed
   in between, P's rec_lsn is the same (a Write to a dirty page does not
   change it); and the rec_lsn of a dirty page is the LSN of the first Update
   to it since its last flush. *)
C12_RecLsnStable ==
  \A k \in Normal : \A p \in DOMAIN states[k].dirty_page_table :
    /\ \A j \in 1..(k - 1) :
         (p \in DOMAIN states[j].dirty_page_table /\ NoFlushBetween(p, j, k))
         => states[j].dirty_page_table[p].rec_lsn = states[k].dirty_page_table[p].rec_lsn
    /\ WritesSinceFlush(p, k) # {}
    /\ LET w == Min(WritesSinceFlush(p, k))
           r == states[k].dirty_page_table[p].rec_lsn
       IN  /\ r = Len(states[w].log)
           /\ At(states[k].log, r).type = LogType.UPDATE
           /\ At(states[k].log, r).page_id = p

\* a page was written, flushed, and written twice more: its rec_lsn is the
\* LSN of the first write after the flush, below its pageLSN
C12_Witness ==
  \E k \in Normal : \E p \in DOMAIN states[k].dirty_page_table :
    /\ \E i \in 1..(k - 1) : ops[i].type = OpType.FLUSH /\ ops[i].page_id = p
    /\ Cardinality(WritesSinceFlush(p, k)) >= 2
    /\ states[k].dirty_page_table[p].rec_lsn > 0
    /\ states[k].buffer_pool[p].page_lsn > states[k].dirty_page_table[p].rec_lsn

-----------------------------------------------------------------------------
\* log a is a prefix of log b, entry by entry
IsPrefix(a, b) == Len(a) <= Len(b) /\ \A i \in 1..Len(a) : a[i] = b[i]

(* C13: log integrity.  In every snapshot of the history the entry at index
   i of the log has lsn = i; and for every two consecutive snapshots, except
   the step into the Crashed snapshot, the log of the earlier is a prefix of
   the log of the later, every retained entry unchanged. *)
C13_LogIntegrity ==
  /\ \A k \in 1..Len(states) : \A i \in 1..Len(states[k].log) :
       states[k].log[i].lsn = i - 1
  /\ \A k \in 2..Len(states) :
       states[k].phase # Phase.CRASHED => IsPrefix(states[k - 1].log, states[k].log)

\* simulate has finished: a checkpoint was logged in forward processing, the
\* crash cut the log, and undo appended a CLR and an End entry to it
C13_Witness ==
  /\ pc = "done"
  /\ Len(CrashState.log) < Len(PreCrash.log)
  /\ \E l \in 0..(Len(CrashState.log) - 1) : At(CrashState.log, l).type = LogType.CHECKPOINT
  /\ Len(Last(states).log) >= Len(CrashState.log) + 2
  /\ Last(Last(states).log).type = LogType.END

\* the position of a phase in the order simulate runs them
PhaseRank(ph) ==
  IF ph = Phase.NORMAL THEN 1 ELSE IF ph = Phase.CRASHED THEN 2
  ELSE IF ph = Phase.ANALYSIS THEN 3 ELSE IF ph = Phase.REDO THEN 4 ELSE 5

PhasesOf(h) == { h[k].phase : k \in 1..Len(h) }

(* C14: phase sequencing.  In the history simulate returns the snapshot
   phases occur in the order Normal, Crashed, Analysis, Redo, Undo, no phase
   revisited once left, exactly one Crashed snapshot, and every one of the
   five phases is present (Redo too when the dirty page table after analysis
   is empty). *)
C14_PhaseSequencing ==
  pc = "done" =>
    /\ \A k \in 2..Len(states) :
         PhaseRank(states[k - 1].phase) <= PhaseRank(states[k].phase)
    /\ Cardinality({ k \in 1..Len(states) : states[k].phase = Phase.CRASHED }) = 1
    /\ PhasesOf(states) = { Phase.NORMAL, Phase.CRASHED, Phase.ANALYSIS,
                            Phase.REDO, Phase.UNDO }

-----------------------------------------------------------------------------
(* C15: termination.  simulate runs to its end on every operation list;
   every LSN an iteration of the undo loop pushes back into the loser set is
   strictly smaller than the LSN it removed; and simulate ends with the loser
   set and the transaction table both empty. *)
C15_Termination ==
  /\ <>(pc = "done")
  /\ [](pc = "done" => (losers = <<>> /\ DOMAIN Last(states).txn_table = {}))
  /\ [][(pc = "undo" /\ Len(losers) > 0 /\ Len(losers') = Len(losers))
          => Last(losers') < undo_pop(losers)]_vars

\* simulate has finished after an undo loop that pushed an LSN back into
\* the loser set and then removed the transaction from the table
C15_Witness ==
  /\ pc = "done"
  /\ DOMAIN AnalysisFinal.txn_table # {}
  /\ \E k \in UndoSteps :
       At(states[k].log, states[k].log_position).prev_lsn # Undefined
  /\ \E k \in UndoSteps :
       At(states[k].log, states[k].log_position).prev_lsn = Undefined

-----------------------------------------------------------------------------
\* the snapshots an iteration of the analysis loop pushed: states[k] is the
\* result of scanning the entry at LSN states[k].log_position - 1
AnalysisSteps ==
  { k \in 2..Len(states) :
      /\ states[k].phase = Phase.ANALYSIS
      /\ \/ states[k - 1].phase = Phase.CRASHED /\ states[k].log_position >= 1
         \/ /\ states[k - 1].phase = Phase.ANALYSIS
            /\ states[k].log_position = states[k - 1].log_position + 1 }

(* C16: no assertion fails.  On every operation list every console.assert
   met by the run holds: a page pinned, flushed or dirtied is on the disk; a
   Flush of a page not in the buffer pool finds it absent from the dirty
   page table; analysis and redo meet no CLR (the log they scan holds none);
   analysis meets a Checkpoint only as the first entry it scans, with the
   volatile structures empty; every LSN undo takes from the loser set is
   that of an Update entry of the log. *)
C16_NoAssertionFails ==
  /\ assert_ok
  /\ \A k \in 1..Len(states) :
       states[k].phase \in {Phase.ANALYSIS, Phase.REDO}
       => \A l \in 0..(Len(states[k].log) - 1) : At(states[k].log, l).type # LogType.CLR
  /\ \A k \in AnalysisSteps :
       At(states[k].log, states[k].log_position - 1).type = LogType.CHECKPOINT
       => /\ states[k - 1].phase = Phase.CRASHED
          /\ is_object_empty(states[k - 1].dirty_page_table)
          /\ is_object_empty(states[k - 1].txn_table)
          /\ is_object_empty(states[k - 1].buffer_pool)
  /\ \A k \in UndoSteps :
       At(states[k].log, states[k].log_position).type = LogType.UPDATE

\* simulate has finished: forward processing flushed a page that was not in
\* the buffer pool, analysis started at a checkpoint that is not the first
\* entry of the log, and undo took an LSN from the loser set
C16_Witness ==
  /\ pc = "done"
  /\ \E k \in 1..Len(ops) :
       ops[k].type = OpType.FLUSH /\ ops[k].page_id \notin DOMAIN states[k].buffer_pool
  /\ \E k \in AnalysisSteps :
       /\ states[k].log_position >= 2
       /\ At(states[k].log, states[k].log_position - 1).type = LogType.CHECKPOINT
  /\ UndoSteps # {}

-----------------------------------------------------------------------------
(* The two scenarios *)

\* the snapshots an iteration of the redo loop pushed
RedoSteps == { k \in 2..Len(states) : states[k].phase = Phase.REDO }

\* the LSNs of the updates the redo loop has reapplied
RedoneLsns ==
  { states[k].log_position - 1 : k \in { j \in RedoSteps :
      LET e == At(states[j].log, states[j].log_position - 1)
      IN  e.type = LogType.UPDATE /\ redo_needed(states[j - 1], e) } }

\* the LSNs of the CLR entries of a log
ClrLsns(log) == { l \in 0..(Len(log) - 1) : At(log, l).type = LogType.CLR }

\* the first snapshot analysis pushed
AnalysisFirst == states[Len(ops) + 3]

\* W_1(A,x), Commit_1()
Scenario17 == ops = WithValues(<< OpWrite("1", "A", Undefined), OpCommit("1") >>)

(* C17 as claimed: on W_1(A,x), Commit_1() and the crash, analysis starts at
   LSN 0, the transaction table at the end of analysis is empty, redo
   reapplies no Update, and undo starts with an empty loser set and appends
   no CLR. *)
C17_CommitThenCrash_AsClaimed ==
  /\ (Scenario17 /\ pc = "done") =>
       /\ AnalysisFirst.phase = Phase.ANALYSIS /\ AnalysisFirst.log_position = 0 + 1
       /\ AnalysisFinal.txn_table = EmptyTable
       /\ RedoneLsns = {}
       /\ UndoSteps = {}
       /\ ClrLsns(Last(states).log) = {}
  /\ (Scenario17 /\ pc \in {"undo", "done"}) => losers = <<>>

(* C17 amended: on W_1(A,x), Commit_1() and the crash, analysis starts at
   LSN 0, the transaction table at the end of analysis is empty, redo
   reapplies the Update at LSN 0 to page A (the commit forced the log, not
   the page: A on disk has page_lsn -1), and undo starts with an empty loser
   set and appends no CLR; A ends with value x in the buffer pool. *)
C17_CommitThenCrash ==
  /\ (Scenario17 /\ pc = "done") =>
       /\ AnalysisFirst.phase = Phase.ANALYSIS /\ AnalysisFirst.log_position = 0 + 1
       /\ AnalysisFinal.txn_table = EmptyTable
       /\ CrashState.disk["A"] = Page(DummyPageLsn, Bottom)
       /\ RedoneLsns = {0}
       /\ UndoSteps = {}
       /\ ClrLsns(Last(states).log) = {}
       /\ Last(states).buffer_pool = [p \in {"A"} |-> Page(0, Bottom + 1)]
       /\ Last(states).disk = CrashState.disk
  /\ (Scenario17 /\ pc \in {"undo", "done"}) => losers = <<>>

\* simulate has finished on W_1(A,x), Commit_1(): the whole log survived the
\* crash and redo ran over it
C17_Witness ==
  /\ Scenario17
  /\ pc = "done"
  /\ Len(CrashState.log) = 3
  /\ Cardinality(RedoSteps) = 3

\* W_1(A,a), W_2(B,b), Commit_1()
Scenario18 ==
  ops = WithValues(<< OpWrite("1", "A", Undefined), OpWrite("2", "B", Undefined),
                      OpCommit("1") >>)

(* C18: on W_1(A,a), W_2(B,b), Commit_1() and the crash, the dirty page
   table at the end of analysis is {A: 0}, the transaction table at the end
   of analysis holds T2 with status aborted, redo reapplies the Update to A,
   and undo appends exactly one CLR, for T2's Update to B, sets B's buffer
   value back to the sentinel and appends an End entry for T2. *)
C18_TwoTransactions ==
  (Scenario18 /\ pc = "done") =>
    /\ AnalysisFinal.dirty_page_table = [p \in {"A"} |-> DirtyPageTableEntry(0)]
    /\ DOMAIN AnalysisFinal.txn_table = {"2"}
    /\ AnalysisFinal.txn_table["2"].txn_status = TxnStatus.ABORTED
    /\ CrashState.disk["A"].page_lsn = DummyPageLsn
    /\ 0 \in RedoneLsns
    /\ Cardinality(ClrLsns(Last(states).log)) = 1
    /\ \A l \in ClrLsns(Last(states).log) :
         /\ At(Last(states).log, l).txn_id = "2"
         /\ At(Last(states).log, l).page_id = "B"
    /\ Last(states).buffer_pool["B"].value = Bottom
    /\ Last(Last(states).log).type = LogType.END
    /\ Last(Last(states).log).txn_id = "2"

-----------------------------------------------------------------------------
(* C19: forward processing pushes exactly one snapshot per operation, in
   input order.  After simulate on n operations the history begins with
   n + 1 Normal snapshots and no other snapshot is Normal; the i-th
   (i = 0..n) has num_ops_processed = i and, for i >= 1, is the result of
   applying operation i - 1 to snapshot i - 1; and the Crashed snapshot is
   derived from snapshot n. *)
C19_OneSnapshotPerOp ==
  Crashed =>
    /\ \A i \in 0..Len(ops) :
         /\ states[i + 1].phase = Phase.NORMAL
         /\ states[i + 1].num_ops_processed = i
         /\ i >= 1 => states[i + 1] = forward_step(states[i], ops[i])
    /\ \A k \in (Len(ops) + 2)..Len(states) : states[k].phase # Phase.NORMAL
    /\ CrashState = crash(PreCrash)
    /\ CrashState.num_ops_processed = Len(ops)

\* the crash has been taken after four operations, one of each type
C19_Witness ==
  /\ Crashed
  /\ Len(ops) = 4
  /\ { ops[i].type : i \in 1..Len(ops) } =
       { OpType.WRITE, OpType.COMMIT, OpType.FLUSH, OpType.CHECKPOINT }
  /\ Len(PreCrash.log) = 4

-----------------------------------------------------------------------------
(* C20: snapshot independence.  No step of forward processing, crash,
   analysis, redo or undo changes a snapshot already in the history, in any
   of its fields; the history only grows by appending. *)
C20_SnapshotIndependence ==
  [][/\ Len(states') >= Len(states)
     /\ \A k \in 1..Len(states) : states'[k] = states[k]]_vars

\* simulate has finished, having pushed snapshots in every phase: each loop
\* kept writing to its working object after the pushes
C20_Witness ==
  /\ pc = "done"
  /\ Len(ops) >= 2
  /\ Cardinality(AnalysisSteps) >= 2
  /\ Cardinality(RedoSteps) >= 2
  /\ Cardinality(UndoSteps) >= 2

-----------------------------------------------------------------------------
\* the entry an iteration of the redo loop scanned to push states[k]
RedoEntry(k) == At(states[k].log, states[k].log_position - 1)

\* the three conditions of the redo criterion, for the update u in state s
InDpt(s, u) == u.page_id \in DOMAIN s.dirty_page_table

RecLsnLe(s, u) == s.dirty_page_table[u.page_id].rec_lsn <= u.lsn

DiskLsnLt(s, u) == s.disk[u.page_id].page_lsn < u.lsn

(* C21: redo criterion.  When redo scans an Update entry at LSN L for page
   P it overwrites P's buffer copy with {page_lsn = L, value = after} if and
   only if P is in the dirty page table, P's rec_lsn <= L and P's page_lsn
   on disk < L; otherwise it leaves the buffer pool unchanged.  Scanning a
   Commit, End or Checkpoint entry changes no page. *)
C21_RedoCriterion ==
  \A k \in RedoSteps :
    LET u == RedoEntry(k)
        before == states[k - 1]
        after == states[k]
    IN  /\ u.lsn = after.log_position - 1
        /\ after.disk = before.disk
        /\ IF /\ u.type = LogType.UPDATE
              /\ InDpt(before, u) /\ RecLsnLe(before, u) /\ DiskLsnLt(before, u)
           THEN /\ after.buffer_pool = Put(before.buffer_pool, u.page_id,
                                           Page(u.lsn, u.after))
                /\ after.buffer_pool # before.buffer_pool
           ELSE after.buffer_pool = before.buffer_pool

\* a redo pass has redone an update, skipped one whose page has a larger
\* rec_lsn, skipped one that is on the disk already, and scanned a checkpoint
C21_Witness ==
  /\ pc = "undo_begin"
  /\ \E k \in RedoSteps :
       LET u == RedoEntry(k)
       IN  /\ u.type = LogType.UPDATE
           /\ InDpt(states[k - 1], u) /\ RecLsnLe(states[k - 1], u)
           /\ DiskLsnLt(states[k - 1], u)
  /\ \E k \in RedoSteps :
       LET u == RedoEntry(k)
       IN  /\ u.type = LogType.UPDATE
           /\ InDpt(states[k - 1], u) /\ ~RecLsnLe(states[k - 1], u)
  /\ \E k \in RedoSteps :
       LET u == RedoEntry(k)
       IN  /\ u.type = LogType.UPDATE
           /\ InDpt(states[k - 1], u) /\ RecLsnLe(states[k - 1], u)
           /\ ~DiskLsnLt(states[k - 1], u)
  /\ \E k \in RedoSteps : RedoEntry(k).type = LogType.CHECKPOINT

-----------------------------------------------------------------------------
\* the copy of page p the last Update entry for p in log leaves: the page
\* aries.init provisions if there is none
LastUpdatePage(log, p) ==
  LET S == { l \in UpdateLsns(log) : At(log, l).page_id = p }
  IN  IF S = {} THEN Page(DummyPageLsn, Bottom)
      ELSE LET l == CHOOSE x \in S : \A y \in S : y <= x
           IN  Page(l, At(log, l).after)

(* C22: redo repeats history.  In the last snapshot before undo starts, the
   effective copy of every page (the buffer pool copy if resident, the disk
   copy otherwise) has the value and the page_lsn of the last Update entry
   for the page in the durable log, or is the sentinel page with page_lsn -1
   if the log has none. *)
C22_RedoRepeatsHistory ==
  pc = "undo_begin" =>
    \A p \in DOMAIN Last(states).disk :
      Effective(Last(states), p) = LastUpdatePage(CrashState.log, p)

\* redo has finished on a durable log with a checkpoint, a flush of a dirty
\* page before it and one after it, and has redone an update
C22_Witness ==
  /\ pc = "undo_begin"
  /\ RedoneLsns # {}
  /\ \E c \in 1..Len(ops) :
       /\ ops[c].type = OpType.CHECKPOINT
       /\ Len(states[c].log) < CrashState.num_flushed
       /\ \E i \in 1..(c - 1) :
            ops[i].type = OpType.FLUSH /\ ops[i].page_id \in DOMAIN states[i].buffer_pool
       /\ \E j \in (c + 1)..Len(ops) :
            ops[j].type = OpType.FLUSH /\ ops[j].page_id \in DOMAIN states[j].buffer_pool

-----------------------------------------------------------------------------
\* the elements of a sequence
Range(seq) == { seq[i] : i \in 1..Len(seq) }

(* C23: undo step.  An iteration of the undo loop that undoes the Update U
   of transaction T appends one CLR at LSN c = the length of the log before
   the append, sets the buffer copy of U's page to {page_lsn = c, value =
   U.before} and T's last_lsn to c; if U.prev_lsn is defined it goes back
   into the loser set and T stays in the transaction table, otherwise an End
   entry for T with prev_lsn = c is appended at LSN c + 1 and T leaves the
   transaction table. *)
C23_UndoStep ==
  [][(pc = "undo" /\ Len(losers) > 0) =>
       LET new == Last(states')
           U == At(state.log, new.log_position)
           c == Len(state.log)
           T == U.txn_id
       IN  /\ U.type = LogType.UPDATE
           /\ U.lsn \in Range(losers)
           /\ IsPrefix(state.log, new.log)
           /\ At(new.log, c).type = LogType.CLR
           /\ At(new.log, c).lsn = c
           /\ At(new.log, c).txn_id = T
           /\ At(new.log, c).page_id = U.page_id
           /\ new.buffer_pool[U.page_id] = Page(c, U.before)
           /\ IF U.prev_lsn # Undefined
              THEN /\ Len(new.log) = c + 1
                   /\ T \in DOMAIN new.txn_table
                   /\ new.txn_table[T].last_lsn = c
                   /\ Range(losers') = (Range(losers) \ {U.lsn}) \cup {U.prev_lsn}
              ELSE /\ Len(new.log) = c + 2
                   /\ At(new.log, c + 1) = LogEnd(c + 1, T, c)
                   /\ T \notin DOMAIN new.txn_table
                   /\ Range(losers') = Range(losers) \ {U.lsn}]_vars

\* undo has rolled back two transactions, one of them with two updates:
\* iterations of both kinds were taken
C23_Witness ==
  /\ pc = "done"
  /\ Cardinality(DOMAIN AnalysisFinal.txn_table) = 2
  /\ \E k \in UndoSteps :
       /\ At(states[k].log, states[k].log_position).prev_lsn # Undefined
       /\ DOMAIN states[k].txn_table = DOMAIN states[k - 1].txn_table
  /\ \E k \in UndoSteps : Last(states[k].log).type = LogType.END

-----------------------------------------------------------------------------
\* the undo iterations that undid the update at LSN l
UndoStepsOf(l) == { k \in UndoSteps : states[k].log_position = l }

\* the End entries for transaction t that undo appended to log
UndoEnds(log, t) ==
  { l \in Len(CrashState.log)..(Len(log) - 1) :
      At(log, l).type = LogType.END /\ At(log, l).txn_id = t }

(* C24: undo compensates each loser update exactly once.  In the final log
   every Update on the prev_lsn chain from the last_lsn of a transaction in
   the transaction table at the end of analysis has exactly one CLR written
   for it (and there is no other CLR), no Update of a transaction whose
   Commit is durable has a CLR, and undo appended exactly one End entry per
   loser transaction (and no other). *)
C24_CompensatedOnce ==
  pc = "done" =>
    LET final == Last(states).log
        L == LoserUpdates(AnalysisFinal)
    IN  /\ \A l \in L :
             /\ Cardinality(UndoStepsOf(l)) = 1
             /\ \A k \in UndoStepsOf(l) :
                  LET clr == At(final, Len(states[k - 1].log))
                  IN  /\ clr.type = LogType.CLR
                      /\ clr.txn_id = At(final, l).txn_id
                      /\ clr.page_id = At(final, l).page_id
        /\ Cardinality(ClrLsns(final)) = Cardinality(L)
        /\ Cardinality(UndoSteps) = Cardinality(L)
        /\ \A l \in UpdateLsns(CrashState.log) :
             CommittedIn(CrashState.log, l) => UndoStepsOf(l) = {}
        /\ \A t \in DOMAIN AnalysisFinal.txn_table : Cardinality(UndoEnds(final, t)) = 1
        /\ \A l \in Len(CrashState.log)..(Len(final) - 1) :
             At(final, l).type = LogType.END
             => At(final, l).txn_id \in DOMAIN AnalysisFinal.txn_table

\* undo has finished on a durable log that holds an update of a committed
\* transaction and two updates of one loser transaction
C24_Witness ==
  /\ pc = "done"
  /\ \E l \in UpdateLsns(CrashState.log) : CommittedIn(CrashState.log, l)
  /\ \E t \in DOMAIN AnalysisFinal.txn_table :
       Cardinality(PrevChain(AnalysisFinal.log, AnalysisFinal.txn_table[t].last_lsn)) >= 2

-----------------------------------------------------------------------------
(* Forward processing, operation by operation: states[k] is the snapshot
   ops[k] is applied to and states[k + 1] the snapshot it produces *)

ProcessedOf(type) == { k \in Processed : ops[k].type = type }

(* C25: Write(T,P,v) appends exactly one Update entry at LSN L = the length
   of the log before the append, with before = P's value before the write
   (buffer copy if resident, else disk copy), after = v and prev_lsn = T's
   last_lsn before the write (none if T was not in the transaction table);
   afterwards P's buffer copy is {page_lsn = L, value = v}, T is in the
   transaction table with status in_progress and last_lsn = L, and
   num_flushed and the disk are unchanged. *)
C25_WriteEffect ==
  \A k \in ProcessedOf(OpType.WRITE) :
    LET b == states[k]
        a == states[k + 1]
        T == ops[k].txn_id
        P == ops[k].page_id
        v == ops[k].value
        L == Len(b.log)
    IN  /\ a.log = Append(b.log,
             LogUpdate(L, T, P, Effective(b, P).value, v,
                       IF T \in DOMAIN b.txn_table THEN b.txn_table[T].last_lsn
                       ELSE Undefined))
        /\ a.buffer_pool[P] = Page(L, v)
        /\ T \in DOMAIN a.txn_table
        /\ a.txn_table[T] = TxnTableEntry(TxnStatus.IN_PROGRESS, L)
        /\ a.num_flushed = b.num_flushed
        /\ a.disk = b.disk

\* a transaction with an earlier update has written a page that was not in
\* the buffer pool and whose disk copy holds a value written before
C25_Witness ==
  \E k \in ProcessedOf(OpType.WRITE) :
    /\ ops[k].txn_id \in DOMAIN states[k].txn_table
    /\ ops[k].page_id \notin DOMAIN states[k].buffer_pool
    /\ states[k].disk[ops[k].page_id].value # Bottom
    /\ states[k + 1].log[Len(states[k + 1].log)].before # Bottom

(* C26: Commit(T) appends exactly two adjacent entries, a Commit at LSN c
   with prev_lsn = T's last_lsn (none if T is not in the transaction table)
   and an End at LSN c + 1 with prev_lsn = c, removes T from the transaction
   table, and leaves the buffer pool, the disk, the dirty page table and the
   table entry of every other transaction unchanged. *)
C26_CommitEffect ==
  \A k \in ProcessedOf(OpType.COMMIT) :
    LET b == states[k]
        a == states[k + 1]
        T == ops[k].txn_id
        c == Len(b.log)
    IN  /\ a.log = b.log \o
             << LogCommit(c, T, IF T \in DOMAIN b.txn_table
                                THEN b.txn_table[T].last_lsn ELSE Undefined),
                LogEnd(c + 1, T, c) >>
        /\ DOMAIN a.txn_table = DOMAIN b.txn_table \ {T}
        /\ \A u \in DOMAIN a.txn_table : a.txn_table[u] = b.txn_table[u]
        /\ a.buffer_pool = b.buffer_pool
        /\ a.disk = b.disk
        /\ a.dirty_page_table = b.dirty_page_table

\* a transaction with an update has committed while another transaction was
\* in progress and its own page was still dirty in the buffer pool
C26_Witness ==
  \E k \in ProcessedOf(OpType.COMMIT) :
    /\ ops[k].txn_id \in DOMAIN states[k].txn_table
    /\ DOMAIN states[k + 1].txn_table # {}
    /\ DOMAIN states[k + 1].dirty_page_table # {}
    /\ states[k + 1].num_flushed > states[k].num_flushed

\* the Flush operations processed on a page that was / was not resident
FlushesResident ==
  { k \in ProcessedOf(OpType.FLUSH) : ops[k].page_id \in DOMAIN states[k].buffer_pool }

FlushesAbsent == ProcessedOf(OpType.FLUSH) \ FlushesResident

(* C27: Flush(P) on a page resident in the buffer pool makes P's disk copy
   equal to the buffer copy P had just before the flush (value and
   page_lsn), removes P from the buffer pool and from the dirty page table,
   and leaves the log contents, the transaction table and every other
   page's buffer, disk and dirty-page-table entries unchanged. *)
C27_FlushEffect ==
  \A k \in FlushesResident :
    LET b == states[k]
        a == states[k + 1]
        P == ops[k].page_id
    IN  /\ a.disk[P] = b.buffer_pool[P]
        /\ DOMAIN a.buffer_pool = DOMAIN b.buffer_pool \ {P}
        /\ DOMAIN a.dirty_page_table = DOMAIN b.dirty_page_table \ {P}
        /\ a.log = b.log
        /\ a.txn_table = b.txn_table
        /\ DOMAIN a.disk = DOMAIN b.disk
        /\ \A q \in DOMAIN a.buffer_pool : a.buffer_pool[q] = b.buffer_pool[q]
        /\ \A q \in DOMAIN a.disk \ {P} : a.disk[q] = b.disk[q]
        /\ \A q \in DOMAIN a.dirty_page_table :
             a.dirty_page_table[q] = b.dirty_page_table[q]

\* a page written twice has been flushed while another page was dirty in the
\* buffer pool and a transaction was in progress
C27_Witness ==
  \E k \in FlushesResident :
    /\ states[k].buffer_pool[ops[k].page_id].page_lsn >
         states[k].dirty_page_table[ops[k].page_id].rec_lsn
    /\ DOMAIN states[k + 1].buffer_pool # {}
    /\ DOMAIN states[k + 1].dirty_page_table # {}
    /\ DOMAIN states[k + 1].txn_table # {}
    /\ states[k + 1].disk[ops[k].page_id] # states[k].disk[ops[k].page_id]

(* C28: in every forward-processing (Normal) snapshot a page is in the
   buffer pool if and only if it is in the dirty page table, and for such a
   page disk page_lsn < rec_lsn <= buffer page_lsn; consequently Flush(P) on
   a page not in the buffer pool changes nothing in the log, the tables, the
   buffer pool, the disk or num_flushed. *)
C28_ResidentIffDirty ==
  /\ \A k \in Normal :
       /\ DOMAIN states[k].buffer_pool = DOMAIN states[k].dirty_page_table
       /\ \A p \in DOMAIN states[k].buffer_pool :
            /\ states[k].disk[p].page_lsn < states[k].dirty_page_table[p].rec_lsn
            /\ states[k].dirty_page_table[p].rec_lsn
                 <= states[k].buffer_pool[p].page_lsn
  /\ \A k \in FlushesAbsent :
       LET b == states[k]
           a == states[k + 1]
       IN  /\ a.log = b.log
           /\ a.dirty_page_table = b.dirty_page_table
           /\ a.txn_table = b.txn_table
           /\ a.buffer_pool = b.buffer_pool
           /\ a.disk = b.disk
           /\ a.num_flushed = b.num_flushed

\* a page flushed before is resident again, written twice since, and a Flush
\* of a page that is not resident has been processed
C28_Witness ==
  /\ \E k \in Normal : \E p \in DOMAIN states[k].buffer_pool :
       /\ states[k].disk[p].page_lsn >= 0
       /\ states[k].dirty_page_table[p].rec_lsn < states[k].buffer_pool[p].page_lsn
  /\ FlushesAbsent # {}

\* operation j forces the log beyond LSN c: a Commit appended after c, or a
\* Flush of a resident page last written after c
ForcesBeyond(j, c) ==
  \/ ops[j].type = OpType.COMMIT
  \/ /\ ops[j].type = OpType.FLUSH
     /\ ops[j].page_id \in DOMAIN states[j].buffer_pool
     /\ states[j].buffer_pool[ops[j].page_id].page_lsn > c

(* C29: Checkpoint in forward processing appends exactly one Checkpoint
   entry whose stored dirty page table and transaction table equal the
   current tables at that moment, and leaves num_flushed, the buffer pool,
   the disk, the dirty page table and the transaction table unchanged; the
   stored copies do not change when later operations modify the live
   tables, and a checkpoint not forced by a later Commit or Flush is absent
   from the log after the crash. *)
C29_CheckpointEffect ==
  \A k \in ProcessedOf(OpType.CHECKPOINT) :
    LET b == states[k]
        a == states[k + 1]
        c == Len(b.log)
        entry == LogCheckpoint(c, b.dirty_page_table, b.txn_table)
    IN  /\ a.log = Append(b.log, entry)
        /\ a.num_flushed = b.num_flushed
        /\ a.buffer_pool = b.buffer_pool
        /\ a.disk = b.disk
        /\ a.dirty_page_table = b.dirty_page_table
        /\ a.txn_table = b.txn_table
        /\ \A j \in (k + 1)..Len(states) :
             (j \in Normal \/ Len(CrashState.log) > c)
               => states[j].log[c + 1] = entry
        /\ (Crashed /\ \A j \in (k + 1)..Len(ops) : ~ForcesBeyond(j, c))
             => Len(CrashState.log) <= c

\* a checkpoint has stored non-empty tables, a later Flush of a page written
\* before the checkpoint has changed the live dirty page table and forced
\* the log without reaching the checkpoint, and the crash has dropped it
C29_Witness ==
  \E k \in ProcessedOf(OpType.CHECKPOINT) :
    /\ DOMAIN states[k].dirty_page_table # {}
    /\ DOMAIN states[k].txn_table # {}
    /\ Crashed
    /\ PreCrash.dirty_page_table # states[k].dirty_page_table
    /\ PreCrash.num_flushed > states[k].num_flushed
    /\ PreCrash.log[Len(states[k].log) + 1].dirty_page_table
         = states[k].dirty_page_table
    /\ Len(CrashState.log) <= Len(states[k].log)

-----------------------------------------------------------------------------
\* the LSNs of the Checkpoint entries of a log
CheckpointLsns(log) == { i \in 0..(Len(log) - 1) : At(log, i).type = LogType.CHECKPOINT }

\* where the scan of analysis has to start on a log
StartLsn(log) ==
  IF CheckpointLsns(log) = {} THEN 0
  ELSE CHOOSE x \in CheckpointLsns(log) : \A y \in CheckpointLsns(log) : y <= x

\* the snapshots of phase analysis
AnalysisSnapshots == { k \in 1..Len(states) : states[k].phase = Phase.ANALYSIS }

(* C30: Analysis scan range.  Analysis starts at the LSN of the most recent
   Checkpoint entry in the truncated log (0 if there is none), examines
   every entry from that LSN to the end of the log exactly once in ascending
   LSN order producing one snapshot per entry plus one final snapshot, and
   when the first entry is a Checkpoint the tables after that first step
   equal the checkpoint's stored dirty page table and transaction table. *)
C30_AnalysisScan ==
  Crashed =>
    LET log == CrashState.log
        n == Len(log)
        start == StartLsn(log)
        base == Len(ops) + 2
        count == Cardinality(AnalysisSnapshots)
    IN  /\ AnalysisSnapshots = (base + 1)..(base + count)
        /\ count <= (n - start) + 1
        /\ AnalysisDone => count = (n - start) + 1
        /\ \A i \in 1..count :
             /\ states[base + i].log = log
             /\ states[base + i].log_position = IF i <= n - start THEN start + i ELSE n
             /\ (i <= n - start /\ At(log, start + i - 1).type = LogType.UPDATE)
                  => LET e == At(log, start + i - 1)
                     IN  /\ e.txn_id \in DOMAIN states[base + i].txn_table
                         /\ states[base + i].txn_table[e.txn_id].last_lsn = e.lsn
                         /\ e.page_id \in DOMAIN states[base + i].dirty_page_table
             /\ (i <= n - start /\ At(log, start + i - 1).type = LogType.END)
                  => At(log, start + i - 1).txn_id
                       \notin DOMAIN states[base + i].txn_table
        /\ (count >= 1 /\ n > start /\ At(log, start).type = LogType.CHECKPOINT)
             => /\ states[base + 1].dirty_page_table = At(log, start).dirty_page_table
                /\ states[base + 1].txn_table = At(log, start).txn_table

\* analysis has finished on a log with two checkpoints, the later one storing
\* non-empty tables and followed by further entries
C30_Witness ==
  /\ Crashed
  /\ AnalysisDone
  /\ Cardinality(CheckpointLsns(CrashState.log)) >= 2
  /\ StartLsn(CrashState.log) + 1 < Len(CrashState.log)
  /\ DOMAIN At(CrashState.log, StartLsn(CrashState.log)).dirty_page_table # {}
  /\ DOMAIN At(CrashState.log, StartLsn(CrashState.log)).txn_table # {}
  /\ Cardinality(AnalysisSnapshots)
       = Len(CrashState.log) - StartLsn(CrashState.log) + 1

-----------------------------------------------------------------------------
\* the LSNs of the entries of transaction t in a log
EntriesOf(log, t) ==
  { i \in 0..(Len(log) - 1) :
      At(log, i).type \in {LogType.UPDATE, LogType.COMMIT, LogType.END, LogType.CLR}
      /\ At(log, i).txn_id = t }

\* the log has an Update entry of t that no End entry of t follows
OpenUpdate(log, t) ==
  \E i \in EntriesOf(log, t) :
    /\ At(log, i).type = LogType.UPDATE
    /\ \A j \in EntriesOf(log, t) : j > i => At(log, j).type # LogType.END

LastEntryOf(log, t) ==
  CHOOSE x \in EntriesOf(log, t) : \A y \in EntriesOf(log, t) : y <= x

(* C31: Analysis result for transactions.  In the final Analysis snapshot a
   transaction T is in the transaction table if and only if the durable log
   contains an Update entry of T that is not followed by an End entry of T,
   and then T's last_lsn is the LSN of T's last entry in the durable log,
   which is an Update entry; this holds with and without a checkpoint in
   the durable log. *)
C31_AnalysisTxnTable ==
  (Crashed /\ AnalysisDone) =>
    LET log == CrashState.log
        f == AnalysisFinal
    IN  /\ \A t \in DOMAIN f.txn_table : EntriesOf(log, t) # {}
        /\ \A t \in Txns :
             /\ t \in DOMAIN f.txn_table <=> OpenUpdate(log, t)
             /\ t \in DOMAIN f.txn_table =>
                  /\ f.txn_table[t].last_lsn = LastEntryOf(log, t)
                  /\ At(log, LastEntryOf(log, t)).type = LogType.UPDATE

\* analysis has finished on a log with a checkpoint: one transaction is in
\* the table through an update older than the checkpoint, and another, with
\* an update older than the checkpoint too, has ended after the checkpoint
C31_Witness ==
  /\ Crashed
  /\ AnalysisDone
  /\ CheckpointLsns(CrashState.log) # {}
  /\ \E t \in DOMAIN AnalysisFinal.txn_table :
       AnalysisFinal.txn_table[t].last_lsn < StartLsn(CrashState.log)
  /\ \E t \in Txns :
       /\ t \notin DOMAIN AnalysisFinal.txn_table
       /\ t \in DOMAIN At(CrashState.log, StartLsn(CrashState.log)).txn_table
       /\ \E i \in EntriesOf(CrashState.log, t) :
            i > StartLsn(CrashState.log) /\ At(CrashState.log, i).type = LogType.END

-----------------------------------------------------------------------------
\* the snapshots from the crash on
FromCrash == { k \in 1..Len(states) : k >= Len(ops) + 2 }

(* C32: Durable-count invariants.  In every snapshot of the history
   num_flushed <= the length of the log and every on-disk page has
   page_lsn < num_flushed (so after the crash every on-disk page_lsn is -1
   or indexes an Update entry for that page in the surviving log);
   num_flushed never decreases from one snapshot to the next. *)
C32_DurableCount ==
  /\ \A k \in 1..Len(states) :
       /\ states[k].num_flushed <= Len(states[k].log)
       /\ \A p \in DOMAIN states[k].disk :
            states[k].disk[p].page_lsn < states[k].num_flushed
  /\ \A k \in FromCrash : \A p \in DOMAIN states[k].disk :
       \/ states[k].disk[p].page_lsn = DummyPageLsn
       \/ /\ states[k].disk[p].page_lsn \in 0..(Len(CrashState.log) - 1)
          /\ At(CrashState.log, states[k].disk[p].page_lsn).type = LogType.UPDATE
          /\ At(CrashState.log, states[k].disk[p].page_lsn).page_id = p
  /\ \A k \in 1..(Len(states) - 1) :
       states[k].num_flushed <= states[k + 1].num_flushed

\* recovery has finished: a flushed page is on the disk, the log had an
\* unforced tail before the crash, a Flush had forced less than was already
\* durable, and undo has appended beyond the durable count
C32_Witness ==
  /\ pc = "done"
  /\ \E p \in DOMAIN Last(states).disk : Last(states).disk[p].page_lsn >= 0
  /\ PreCrash.num_flushed < Len(PreCrash.log)
  /\ \E k \in FlushesResident :
       states[k].buffer_pool[ops[k].page_id].page_lsn + 1 < states[k].num_flushed
  /\ Len(Last(states).log) > Len(CrashState.log)

\* the entries log b has beyond log a
Appended(a, b) == { b[i] : i \in (Len(a) + 1)..Len(b) }

(* C33: Recovery frame.  From the Crashed snapshot to the last snapshot of
   the history the disk and num_flushed never change; Analysis leaves the
   log and the buffer pool unchanged; Redo leaves the log, the transaction
   table and the dirty page table unchanged; Undo leaves the dirty page
   table unchanged and changes the log only by appending CLR and End
   entries. *)
C33_RecoveryFrame ==
  \A k \in FromCrash : k + 1 <= Len(states) =>
    LET b == states[k]
        a == states[k + 1]
    IN  /\ a.disk = b.disk
        /\ a.num_flushed = b.num_flushed
        /\ a.phase = Phase.ANALYSIS =>
             /\ a.log = b.log
             /\ a.buffer_pool = b.buffer_pool
        /\ a.phase = Phase.REDO =>
             /\ a.log = b.log
             /\ a.txn_table = b.txn_table
             /\ a.dirty_page_table = b.dirty_page_table
        /\ a.phase = Phase.UNDO =>
             /\ a.dirty_page_table = b.dirty_page_table
             /\ IsPrefix(b.log, a.log)
             /\ \A e \in Appended(b.log, a.log) :
                  e.type \in {LogType.CLR, LogType.END}

\* recovery has finished with a page on the disk that the log wrote later:
\* analysis scanned entries, redo applied an update to the buffer pool, and
\* undo wrote a page that is not in the dirty page table and appended a CLR
\* and an End entry
C33_Witness ==
  /\ pc = "done"
  /\ \E p \in DOMAIN CrashState.disk : CrashState.disk[p].page_lsn >= 0
  /\ Cardinality(AnalysisSnapshots) >= 3
  /\ \E k \in FromCrash :
       /\ k + 1 <= Len(states)
       /\ states[k + 1].phase = Phase.REDO
       /\ states[k + 1].buffer_pool # states[k].buffer_pool
  /\ \E k \in FromCrash :
       /\ k + 1 <= Len(states)
       /\ states[k + 1].phase = Phase.UNDO
       /\ Len(states[k + 1].log) = Len(states[k].log) + 2
       /\ DOMAIN states[k + 1].buffer_pool # DOMAIN states[k + 1].dirty_page_table

=============================================================================
